---- MODULE Spec2Model ----
(***************************************************************************)
(* koit: Database<D, B, F> (src/src/lib.rs) over the File and the Memory    *)
(* backend (src/src/backend.rs) and a textual integer Format               *)
(* (src/src/format.rs).                                                    *)
(*                                                                         *)
(* D is a signed integer type with range Data.  F writes a value as its    *)
(* decimal JSON text and rejects the values its target cannot represent.   *)
(* Every call on the database runs in a task of its own; the tasks are     *)
(* numbered in the order the calls are issued and each await point of a    *)
(* call is one step.                                                       *)
(***************************************************************************)
EXTENDS Integers, Sequences, FiniteSets, Bags, TLC

\* Range of D: -MaxData..MaxData.
MaxData == 1
\* Number of calls issued on the database over one behaviour.
MaxCalls == 2

Procs == 1..MaxCalls
Data == (0 - MaxData)..MaxData
Ops == {"read", "read_and_then", "write", "write_and_then", "replace", "save", "reload"}
\* The implementations of Backend.
Backends == {"File", "Memory"}

VARIABLES
  data,      \* Database.data: the value inside the RwLock
  dataId,    \* identity of the D object that currently sits inside the RwLock
  rlock,     \* tasks holding a read guard of Database.data
  wlock,     \* tasks holding the write guard of Database.data
  block,     \* tasks holding the guard of Database.backend
  contents,  \* bytes of the backend: of the file behind backend::File, of Memory's Vec
  fpos,      \* cursor of the open file handle
  pc,        \* per task: position inside its current call
  op,        \* per task: the call it runs
  arg,       \* per task: the D value passed to / produced inside the call
  buf,       \* per task: the Vec<u8> in flight
  ret,       \* per task: what the last call returned
  committed, \* value of data when the write guard was last released
  snap,      \* per task: the value save encoded / read observed
  dirty,     \* per task: whether a step of its current call changed data / contents
  trace,     \* per task: Format and Backend functions its current call invoked
  returned,  \* bag of the object identities handed back by replace and reload
  saved,     \* the save whose bytes the file holds, while nothing has changed them
  fresh,     \* the second database, built by FileDatabase::load_from_path
  kind,      \* B: which Backend the database is built over
  db,        \* "none": no Database yet, "boot": under construction, "ready", "consumed"
  exists,    \* whether a file exists at the path
  parts,     \* what Database::into_parts returned
  persisted  \* bytes of the last successful save (the initial bytes, None if no file)

vars == <<data, dataId, rlock, wlock, block, contents, fpos,
          pc, op, arg, buf, ret, committed, snap, dirty, trace, returned, saved,
          fresh, kind, db, exists, parts, persisted>>

lockVars == <<rlock, wlock, block>>
fileVars == <<contents, fpos>>
dataVars == <<data, dataId, committed>>
envVars == <<kind, db, exists, parts, persisted>>

Some(x) == <<x>>
None == <<>>

(***************************************************************************)
(* Format<D>                                                               *)
(***************************************************************************)
RECURSIVE Digits(_)
Digits(n) ==
  IF n < 10 THEN <<48 + n>> ELSE Digits(n \div 10) \o <<48 + (n % 10)>>

RECURSIVE Num(_)
Num(ds) ==
  IF Len(ds) = 0 THEN 0
  ELSE 10 * Num(SubSeq(ds, 1, Len(ds) - 1)) + (ds[Len(ds)] - 48)

\* The values the format cannot encode (Format::to_bytes returns Err).
SerError(v) == v = MaxData

to_bytes(v) ==
  IF SerError(v) THEN [ok |-> FALSE, bytes |-> <<>>]
  ELSE [ok |-> TRUE, bytes |-> IF v < 0 THEN <<45>> \o Digits(0 - v) ELSE Digits(v)]

\* Mutant: the sign is read but not applied.
from_bytes_Unsigned(b) ==
  LET neg == Len(b) > 0 /\ b[1] = 45
      ds == IF neg THEN Tail(b) ELSE b
      wf == /\ Len(ds) > 0
            /\ \A i \in 1..Len(ds) : ds[i] \in 48..57
            /\ (Len(ds) > 1 => ds[1] # 48)
            /\ ~(neg /\ ds = <<48>>)
      v == Num(ds)
  IN IF wf /\ v \in Data THEN [ok |-> TRUE, val |-> v] ELSE [ok |-> FALSE, val |-> 0]

from_bytes(b) ==
  LET neg == Len(b) > 0 /\ b[1] = 45
      ds == IF neg THEN Tail(b) ELSE b
      wf == /\ Len(ds) > 0
            /\ \A i \in 1..Len(ds) : ds[i] \in 48..57
            /\ (Len(ds) > 1 => ds[1] # 48)
            /\ ~(neg /\ ds = <<48>>)
      v == IF neg THEN 0 - Num(ds) ELSE Num(ds)
  IN IF wf /\ v \in Data THEN [ok |-> TRUE, val |-> v] ELSE [ok |-> FALSE, val |-> 0]

(***************************************************************************)
(* backend::File over one open handle                                      *)
(***************************************************************************)
FileWriteAt(c, pos, b) ==
  LET pre == [i \in 1..pos |-> IF i <= Len(c) THEN c[i] ELSE 0]
      post == IF Len(c) > pos + Len(b) THEN SubSeq(c, pos + Len(b) + 1, Len(c)) ELSE <<>>
  IN pre \o b \o post

ReadToEnd(c, pos) == IF pos >= Len(c) THEN <<>> ELSE SubSeq(c, pos + 1, Len(c))

(***************************************************************************)
(* async_std::sync::RwLock and Mutex, by their contract: any number of     *)
(* read guards or one write guard; one mutex guard.  Which of the waiting  *)
(* tasks gets a free lock next is left open.                               *)
(***************************************************************************)
\* Mutant: a read guard is handed out while the write guard is held.
CanRead_IgnoresWriter == TRUE
\* Mutant: the data sits behind a plain mutex, readers exclude one another.
CanRead_Exclusive == rlock = {} /\ wlock = {}
CanRead == wlock = {}

\* Mutant: the write guard is handed out while read guards are held.
CanWrite_IgnoresReaders == wlock = {}
CanWrite == rlock = {} /\ wlock = {}

\* Mutant: the backend is not behind a lock.
CanLock_Always == TRUE
CanLock == block = {}

RwRead(p) == CanRead /\ rlock' = rlock \cup {p} /\ UNCHANGED wlock
RwWrite(p) == CanWrite /\ wlock' = wlock \cup {p} /\ UNCHANGED rlock
RwReadDrop(p) == rlock' = rlock \ {p} /\ UNCHANGED wlock
RwWriteDrop(p) == wlock' = wlock \ {p} /\ UNCHANGED rlock
MutexLock(p) == CanLock /\ block' = block \cup {p}
\* Mutant: the backend guard is leaked instead of dropped.
MutexDrop_Leaks(p) == UNCHANGED block
MutexDrop(p) == block' = block \ {p}

(***************************************************************************)
(* Bookkeeping shared by the steps                                         *)
(***************************************************************************)
Goto(p, l) == pc' = [pc EXCEPT ![p] = l]
Continue(p, l) == Goto(p, l) /\ UNCHANGED ret
Return(p, k, v, i) ==
  /\ pc' = [pc EXCEPT ![p] = "done"]
  /\ ret' = [ret EXCEPT ![p] = [kind |-> k, val |-> v, id |-> i]]
Invoke(p, f) == trace' = [trace EXCEPT ![p] = Append(@, f)]
\* What a step of task p leaves behind, whatever it does to the file's existence.
Account(p) ==
  /\ dirty' = [dirty EXCEPT ![p] = [data |-> @.data \/ data' # data,
                                    store |-> @.store \/ contents' # contents]]
  /\ saved' = IF op[p] = "save" /\ ret'[p].kind = "Ok" THEN Some(p)
              ELSE IF contents' # contents THEN None ELSE saved
  /\ persisted' = IF pc'[p] = "done" /\ ret'[p].kind = "Ok"
                     /\ op[p] \in {"save", "load_from_path_or_else"}
                  THEN Some(buf[p]) ELSE persisted
  /\ db' = IF op[p] = "load_from_path_or_else" /\ pc'[p] = "done"
           THEN IF ret'[p].kind = "Ok" THEN "ready" ELSE "none"
           ELSE db
  /\ UNCHANGED <<fresh, kind, parts>>

Observe(p) == Account(p) /\ UNCHANGED exists

NoRet == [kind |-> "none", val |-> None, id |-> None]
NoFresh == [pc |-> "none", pos |-> 0, buf |-> <<>>, kind |-> "none", data |-> None,
            from |-> None]

\* No call was issued; the Value is the default one.
InitRest ==
  /\ data = 0
  /\ dataId = 0
  /\ rlock = {} /\ wlock = {} /\ block = {}
  /\ fpos = 0
  /\ pc = [p \in Procs |-> "idle"]
  /\ op = [p \in Procs |-> "none"]
  /\ arg = [p \in Procs |-> None]
  /\ buf = [p \in Procs |-> <<>>]
  /\ ret = [p \in Procs |-> NoRet]
  /\ committed = data
  /\ snap = [p \in Procs |-> None]
  /\ dirty = [p \in Procs |-> [data |-> FALSE, store |-> FALSE]]
  /\ trace = [p \in Procs |-> <<>>]
  /\ returned = EmptyBag
  /\ saved = None
  /\ fresh = NoFresh
  /\ parts = None
\* What a file or a Vec<u8> may hold when the program starts.
InitContents == {<<>>, to_bytes(0).bytes, to_bytes(0 - MaxData).bytes}

\* A Database over an open File backend.
Init ==
  /\ kind = "File"
  /\ db = "ready"
  /\ exists = TRUE
  /\ contents \in InitContents
  /\ persisted = Some(contents)
  /\ InitRest


FirstPc(o) ==
  CASE o = "read" -> "read_lock"
    [] o = "read_and_then" -> "rat_lock"
    [] o = "write" -> "write_lock"
    [] o = "write_and_then" -> "wat_lock"
    [] o = "replace" -> "replace_lock"
    [] o = "save" -> "save_backend_lock"
    [] o = "reload" -> "load_backend_lock"

\* The object a call moves into the database carries the call's number.
ObjId(p) == p

\* The next call is issued: task p starts to run it.
Call(p) ==
  /\ db = "ready"
  /\ pc[p] = "idle"
  /\ \A q \in Procs : q < p => pc[q] # "idle"
  /\ fresh.pc = "none"
  /\ \E o \in Ops :
       /\ op' = [op EXCEPT ![p] = o]
       /\ pc' = [pc EXCEPT ![p] = FirstPc(o)]
       /\ IF o = "replace"
          THEN \E v \in Data : arg' = [arg EXCEPT ![p] = Some(v)]
          ELSE UNCHANGED arg
  /\ UNCHANGED <<dataVars, lockVars, fileVars, buf, ret, snap, dirty, trace,
                 returned, saved, fresh, envVars>>

(***************************************************************************)
(* Database::read                                                          *)
(***************************************************************************)
Read_Lock(p) ==
  /\ pc[p] = "read_lock"
  /\ RwRead(p)
  /\ Continue(p, "read_task")
  /\ UNCHANGED <<dataVars, block, fileVars, op, arg, buf,
                 snap, trace, returned>>
  /\ Observe(p)

Read_Task(p) ==
  /\ pc[p] = "read_task"
  /\ snap' = [snap EXCEPT ![p] = Some(data)]
  /\ RwReadDrop(p)
  /\ Return(p, "Ok", Some(data), None)
  /\ UNCHANGED <<dataVars, block, fileVars, op, arg, buf,
                 trace, returned>>
  /\ Observe(p)

(***************************************************************************)
(* Database::read_and_then                                                 *)
(***************************************************************************)
ReadAndThen_Lock(p) ==
  /\ pc[p] = "rat_lock"
  /\ RwRead(p)
  /\ Continue(p, "rat_task")
  /\ UNCHANGED <<dataVars, block, fileVars, op, arg, buf,
                 snap, trace, returned>>
  /\ Observe(p)

\* task(&data) runs up to its first suspension and has looked at the data.
ReadAndThen_Task(p) ==
  /\ pc[p] = "rat_task"
  /\ snap' = [snap EXCEPT ![p] = Some(data)]
  /\ Continue(p, "rat_await")
  /\ UNCHANGED <<dataVars, lockVars, fileVars, op, arg, buf,
                 trace, returned>>
  /\ Observe(p)

\* The task's future completes with what it saw; the read guard is dropped.
ReadAndThen_Await(p) ==
  /\ pc[p] = "rat_await"
  /\ RwReadDrop(p)
  /\ Return(p, "Ok", snap[p], None)
  /\ UNCHANGED <<dataVars, block, fileVars, op, arg, buf,
                 snap, trace, returned>>
  /\ Observe(p)

(***************************************************************************)
(* Database::write                                                         *)
(***************************************************************************)

Write_Lock(p) ==
  /\ pc[p] = "write_lock"
  /\ RwWrite(p)
  /\ Continue(p, "write_task")
  /\ UNCHANGED <<dataVars, block, fileVars, op, arg, buf,
                 snap, trace, returned>>
  /\ Observe(p)

\* task(&mut data): the closure stores some value; the write guard is dropped.
Write_Task(p) ==
  /\ pc[p] = "write_task"
  /\ \E v \in Data : data' = v
  /\ committed' = data'
  /\ RwWriteDrop(p)
  /\ Return(p, "Ok", None, None)
  /\ UNCHANGED <<dataId, block, fileVars, op, arg, buf,
                 snap, trace, returned>>
  /\ Observe(p)

(***************************************************************************)
(* Database::write_and_then                                                *)
(***************************************************************************)

WriteAndThen_Lock(p) ==
  /\ pc[p] = "wat_lock"
  /\ RwWrite(p)
  /\ Continue(p, "wat_task")
  /\ UNCHANGED <<dataVars, block, fileVars, op, arg, buf,
                 snap, trace, returned>>
  /\ Observe(p)

\* What the task leaves in the data before it suspends.
Partial(v) == IF v = MaxData THEN 0 - MaxData ELSE v + 1

\* task(&mut data) runs up to its first suspension: the data is half updated
\* towards the value v the task is going to leave.
WriteAndThen_Task(p) ==
  /\ pc[p] = "wat_task"
  /\ \E v \in Data :
       /\ data' = Partial(v)
       /\ arg' = [arg EXCEPT ![p] = Some(v)]
  /\ Continue(p, "wat_await")
  /\ UNCHANGED <<dataId, committed, lockVars, fileVars, op,
                 buf, snap, trace, returned>>
  /\ Observe(p)

\* The task's future completes the update; the write guard is dropped.
WriteAndThen_Await(p) ==
  /\ pc[p] = "wat_await"
  /\ data' = arg[p][1]
  /\ committed' = data'
  /\ RwWriteDrop(p)
  /\ Return(p, "Ok", None, None)
  /\ UNCHANGED <<dataId, block, fileVars, op, arg, buf,
                 snap, trace, returned>>
  /\ Observe(p)

(***************************************************************************)
(* Database::replace                                                       *)
(***************************************************************************)

Replace_Lock(p) ==
  /\ pc[p] = "replace_lock"
  /\ RwWrite(p)
  /\ Continue(p, "replace_task")
  /\ UNCHANGED <<dataVars, block, fileVars, op, arg, buf,
                 snap, trace, returned>>
  /\ Observe(p)

\* Mutant: the caller gets back (a copy of) what it passed in.
MemReplace_ReturnsNew(p) ==
  /\ data' = arg[p][1]
  /\ dataId' = ObjId(p)
  /\ committed' = data'
  /\ returned' = returned (+) SetToBag({ObjId(p)})
  /\ RwWriteDrop(p)
  /\ Return(p, "Ok", Some(arg[p][1]), Some(ObjId(p)))

\* std::mem::replace(actual_data, data): the new object moves in, the old one out.
MemReplace(p) ==
  /\ data' = arg[p][1]
  /\ dataId' = ObjId(p)
  /\ committed' = data'
  /\ returned' = returned (+) SetToBag({dataId})
  /\ RwWriteDrop(p)
  /\ Return(p, "Ok", Some(data), Some(dataId))

Replace_Task(p) ==
  /\ pc[p] = "replace_task"
  /\ MemReplace(p)
  /\ UNCHANGED <<block, fileVars, op, arg, buf,
                 snap, trace>>
  /\ Observe(p)

(***************************************************************************)
(* Database::save                                                          *)
(***************************************************************************)
\* Mutant: save takes the read guard of the data before the backend guard.
Save_BackendLock_DataFirst(p) ==
  /\ pc[p] = "save_backend_lock"
  /\ IF p \notin rlock
     THEN /\ RwRead(p)
          /\ Continue(p, "save_backend_lock")
          /\ UNCHANGED block
     ELSE /\ MutexLock(p)
          /\ Continue(p, "save_to_bytes")
          /\ UNCHANGED <<rlock, wlock>>
  /\ UNCHANGED <<dataVars, fileVars, op, arg,
                 buf, snap, trace, returned>>
  /\ Observe(p)

Save_BackendLock(p) ==
  /\ pc[p] = "save_backend_lock"
  /\ MutexLock(p)
  /\ Continue(p, "save_data_lock")
  /\ UNCHANGED <<dataVars, rlock, wlock, fileVars, op, arg,
                 buf, snap, trace, returned>>
  /\ Observe(p)

Save_DataLock(p) ==
  /\ pc[p] = "save_data_lock"
  /\ RwRead(p)
  /\ Continue(p, "save_to_bytes")
  /\ UNCHANGED <<dataVars, block, fileVars, op, arg, buf,
                 snap, trace, returned>>
  /\ Observe(p)

\* Mutant: a failed save takes the data out of the database.
SaveReturn_TakesData(p, k) ==
  /\ data' = IF k = "Ok" THEN data ELSE 0
  /\ UNCHANGED <<dataId, committed>>
  /\ RwReadDrop(p)
  /\ MutexDrop(p)
  /\ Return(p, k, None, None)

\* save returns: both guards are dropped; the data was only borrowed.
SaveReturn(p, k) ==
  /\ UNCHANGED dataVars
  /\ RwReadDrop(p)
  /\ MutexDrop(p)
  /\ Return(p, k, None, None)

\* Mutant: the file is truncated before the data is encoded.
Save_ToBytes_TruncatesFirst(p) ==
  /\ pc[p] = "save_to_bytes"
  /\ Invoke(p, "to_bytes")
  /\ snap' = [snap EXCEPT ![p] = Some(data)]
  /\ contents' = <<>>
  /\ IF to_bytes(data).ok
     THEN /\ buf' = [buf EXCEPT ![p] = to_bytes(data).bytes]
          /\ Continue(p, "save_write")
          /\ UNCHANGED <<dataVars, lockVars>>
     ELSE /\ SaveReturn(p, "ToFormat")
          /\ UNCHANGED buf
  /\ UNCHANGED <<fpos, op, arg, returned>>
  /\ Observe(p)

\* F::to_bytes(&data), and on Err the early return of `?`.
Save_ToBytes(p) ==
  /\ pc[p] = "save_to_bytes"
  /\ Invoke(p, "to_bytes")
  /\ snap' = [snap EXCEPT ![p] = Some(data)]
  /\ IF to_bytes(data).ok
     THEN /\ buf' = [buf EXCEPT ![p] = to_bytes(data).bytes]
          /\ Continue(p, "save_write")
          /\ UNCHANGED <<dataVars, lockVars>>
     ELSE /\ SaveReturn(p, "ToFormat")
          /\ UNCHANGED buf
  /\ UNCHANGED <<fileVars, op, arg, returned>>
  /\ Observe(p)

\* backend.write(bytes) is called: File::write seeks to the start.
Save_Seek(p) ==
  /\ pc[p] = "save_write"
  /\ kind = "File"
  /\ Invoke(p, "write")
  /\ \/ /\ fpos' = 0
        /\ Continue(p, "save_set_len")
        /\ UNCHANGED <<dataVars, lockVars>>
     \/ /\ SaveReturn(p, "BackendWrite")
        /\ UNCHANGED fpos
  /\ UNCHANGED <<contents, op, arg, buf, snap,
                 returned>>
  /\ Observe(p)

\* Mutant: the file is not truncated.
Save_SetLen_Keeps(p) ==
  /\ pc[p] = "save_set_len"
  /\ \/ /\ UNCHANGED contents
        /\ Continue(p, "save_write_all")
        /\ UNCHANGED <<dataVars, lockVars>>
     \/ /\ SaveReturn(p, "BackendWrite")
        /\ UNCHANGED contents
  /\ UNCHANGED <<fpos, op, arg, buf, snap,
                 trace, returned>>
  /\ Observe(p)

\* File::write truncates the file.
Save_SetLen(p) ==
  /\ pc[p] = "save_set_len"
  /\ \/ /\ contents' = <<>>
        /\ Continue(p, "save_write_all")
        /\ UNCHANGED <<dataVars, lockVars>>
     \/ /\ SaveReturn(p, "BackendWrite")
        /\ UNCHANGED contents
  /\ UNCHANGED <<fpos, op, arg, buf, snap,
                 trace, returned>>
  /\ Observe(p)

\* File::write writes the bytes; a failure leaves a proper prefix of them behind.
Save_WriteAll(p) ==
  /\ pc[p] = "save_write_all"
  /\ \/ /\ contents' = FileWriteAt(contents, fpos, buf[p])
        /\ fpos' = fpos + Len(buf[p])
        /\ Continue(p, "save_sync_all")
        /\ UNCHANGED <<dataVars, lockVars>>
     \/ \E k \in 0..(Len(buf[p]) - 1) :
          /\ contents' = FileWriteAt(contents, fpos, SubSeq(buf[p], 1, k))
          /\ fpos' = fpos + k
          /\ SaveReturn(p, "BackendWrite")
  /\ UNCHANGED <<op, arg, buf, snap,
                 trace, returned>>
  /\ Observe(p)

\* Mutant: when the sync fails, the write is tried again.
Save_SyncAll_Retries(p) ==
  /\ pc[p] = "save_sync_all"
  /\ \/ SaveReturn(p, "Ok")
     \/ /\ Continue(p, "save_write")
        /\ UNCHANGED <<dataVars, lockVars>>
  /\ UNCHANGED <<fileVars, op, arg, buf, snap,
                 trace, returned>>
  /\ Observe(p)

\* File::write forces the bytes to disk and save returns.
Save_SyncAll(p) ==
  /\ pc[p] = "save_sync_all"
  /\ \/ SaveReturn(p, "Ok")
     \/ SaveReturn(p, "BackendWrite")
  /\ UNCHANGED <<fileVars, op, arg, buf, snap,
                 trace, returned>>
  /\ Observe(p)

(***************************************************************************)
(* Database::load_from_backend and Database::reload                        *)
(***************************************************************************)
Load_BackendLock(p) ==
  /\ pc[p] = "load_backend_lock"
  /\ MutexLock(p)
  /\ Continue(p, "load_read")
  /\ UNCHANGED <<dataVars, rlock, wlock, fileVars, op, arg,
                 buf, snap, trace, returned>>
  /\ Observe(p)

\* Mutant: a failed reload leaves the default value in the database.
LoadFail_ResetsData(p, k) ==
  /\ data' = 0
  /\ UNCHANGED <<dataId, committed>>
  /\ MutexDrop(p)
  /\ Return(p, k, None, None)

\* Mutant: on the error path the backend guard is kept (leaked) instead of
\* dropped.
LoadFail_KeepsGuard(p, k) ==
  /\ UNCHANGED dataVars
  /\ UNCHANGED block
  /\ Return(p, k, None, None)

\* The backend guard is dropped when load_from_backend returns Err to reload,
\* which returns it to its caller.
LoadFail(p, k) ==
  /\ UNCHANGED dataVars
  /\ MutexDrop(p)
  /\ Return(p, k, None, None)

\* Mutant: File::read reads from wherever the cursor was left.
Load_Seek_NoSeek(p) ==
  /\ pc[p] = "load_read"
  /\ kind = "File"
  /\ Invoke(p, "read")
  /\ \/ /\ UNCHANGED fpos
        /\ Continue(p, "load_read_to_end")
        /\ UNCHANGED <<dataVars, block>>
     \/ /\ LoadFail(p, "BackendRead")
        /\ UNCHANGED fpos
  /\ UNCHANGED <<rlock, wlock, contents, op, arg,
                 buf, snap, returned>>
  /\ Observe(p)

\* backend.read() is called: File::read seeks to the start.
Load_Seek(p) ==
  /\ pc[p] = "load_read"
  /\ kind = "File"
  /\ Invoke(p, "read")
  /\ \/ /\ fpos' = 0
        /\ Continue(p, "load_read_to_end")
        /\ UNCHANGED <<dataVars, block>>
     \/ /\ LoadFail(p, "BackendRead")
        /\ UNCHANGED fpos
  /\ UNCHANGED <<rlock, wlock, contents, op, arg,
                 buf, snap, returned>>
  /\ Observe(p)

\* File::read reads to the end of the file.
Load_ReadToEnd(p) ==
  /\ pc[p] = "load_read_to_end"
  /\ \/ /\ buf' = [buf EXCEPT ![p] = ReadToEnd(contents, fpos)]
        /\ fpos' = Len(contents)
        /\ Continue(p, "load_from_bytes")
        /\ UNCHANGED <<dataVars, block>>
     \/ /\ LoadFail(p, "BackendRead")
        /\ UNCHANGED <<buf, fpos>>
  /\ UNCHANGED <<rlock, wlock, contents, op, arg,
                 snap, trace, returned>>
  /\ Observe(p)

\* F::from_bytes(bytes); load_from_backend returns and drops the backend guard.
Load_FromBytes(p) ==
  /\ pc[p] = "load_from_bytes"
  /\ Invoke(p, "from_bytes")
  /\ IF from_bytes(buf[p]).ok
     THEN /\ arg' = [arg EXCEPT ![p] = Some(from_bytes(buf[p]).val)]
          /\ MutexDrop(p)
          /\ UNCHANGED dataVars
          /\ Continue(p, "reload_lock")
     ELSE /\ LoadFail(p, "FromFormat")
          /\ UNCHANGED arg
  /\ UNCHANGED <<rlock, wlock, fileVars, op, buf,
                 snap, returned>>
  /\ Observe(p)

\* reload calls self.replace(new_data).
Reload_Lock(p) ==
  /\ pc[p] = "reload_lock"
  /\ RwWrite(p)
  /\ Continue(p, "reload_task")
  /\ UNCHANGED <<dataVars, block, fileVars, op, arg, buf,
                 snap, trace, returned>>
  /\ Observe(p)

Reload_Task(p) ==
  /\ pc[p] = "reload_task"
  /\ MemReplace(p)
  /\ UNCHANGED <<block, fileVars, op, arg, buf,
                 snap, trace>>
  /\ Observe(p)

(***************************************************************************)
(* FileDatabase::load_from_path on the same path, once the first database  *)
(* is no longer in use                                                     *)
(***************************************************************************)
Quiescent == \A p \in Procs : pc[p] \in {"idle", "done"}

taskVars == <<dataVars, lockVars, pc, op, arg, buf, ret, snap, dirty, trace,
              returned>>

FreshDone(k, d) == fresh' = [fresh EXCEPT !.pc = "done", !.kind = k, !.data = d]

LoadFromPath_Call ==
  /\ kind = "File"
  /\ db \in {"none", "ready"}
  /\ fresh.pc = "none"
  /\ Quiescent
  /\ fresh' = [fresh EXCEPT !.pc = "from_path"]
  /\ UNCHANGED <<taskVars, fileVars, saved, envVars>>

\* Mutant: a missing file is created, as from_path_or_create does.
LoadFromPath_FromPath_Creates ==
  /\ fresh.pc = "from_path"
  /\ \/ /\ fresh' = [fresh EXCEPT !.pc = "read", !.pos = 0]
        /\ exists' = TRUE
     \/ /\ FreshDone("BackendCreation", None)
        /\ UNCHANGED exists
  /\ UNCHANGED <<taskVars, fileVars, saved, kind, db, parts, persisted>>

\* backend::File::from_path opens the file with a handle of its own; it does
\* not create one.
LoadFromPath_FromPath ==
  /\ fresh.pc = "from_path"
  /\ \/ /\ exists
        /\ fresh' = [fresh EXCEPT !.pc = "read", !.pos = 0]
     \/ FreshDone("BackendCreation", None)
  /\ UNCHANGED <<taskVars, fileVars, saved, envVars>>

\* backend.read(): File::read seeks to the start.
LoadFromPath_Seek ==
  /\ fresh.pc = "read"
  /\ \/ fresh' = [fresh EXCEPT !.pc = "read_to_end", !.pos = 0]
     \/ FreshDone("BackendRead", None)
  /\ UNCHANGED <<taskVars, fileVars, saved, envVars>>

LoadFromPath_ReadToEnd ==
  /\ fresh.pc = "read_to_end"
  /\ \/ fresh' = [fresh EXCEPT !.pc = "from_bytes", !.buf = ReadToEnd(contents, fresh.pos),
                               !.pos = Len(contents), !.from = saved]
     \/ FreshDone("BackendRead", None)
  /\ UNCHANGED <<taskVars, fileVars, saved, envVars>>

\* F::from_bytes(bytes), then the Database is built around the data.
LoadFromPath_FromBytes ==
  /\ fresh.pc = "from_bytes"
  /\ IF from_bytes(fresh.buf).ok
     THEN FreshDone("Ok", Some(from_bytes(fresh.buf).val))
     ELSE FreshDone("FromFormat", None)
  /\ UNCHANGED <<taskVars, fileVars, saved, envVars>>

(***************************************************************************)
(* backend::Memory: read clones the Vec, write replaces it; neither fails  *)
(***************************************************************************)
\* backend.write(bytes) on Memory, and save returns.
Save_MemWrite(p) ==
  /\ pc[p] = "save_write"
  /\ kind = "Memory"
  /\ Invoke(p, "write")
  /\ contents' = buf[p]
  /\ SaveReturn(p, "Ok")
  /\ UNCHANGED <<fpos, op, arg, buf, snap, returned>>
  /\ Observe(p)

\* backend.read() on Memory.
Load_MemRead(p) ==
  /\ pc[p] = "load_read"
  /\ kind = "Memory"
  /\ Invoke(p, "read")
  /\ buf' = [buf EXCEPT ![p] = contents]
  /\ Continue(p, "load_from_bytes")
  /\ UNCHANGED <<dataVars, lockVars, fileVars, op, arg, snap, returned>>
  /\ Observe(p)

(***************************************************************************)
(* FileDatabase::load_from_path_or_else (load_from_path_or_default is the  *)
(* same call with the factory that returns the default value)              *)
(***************************************************************************)
OrElse_Call(p) ==
  /\ kind = "File"
  /\ db = "none"
  /\ pc[p] = "idle"
  /\ \A q \in Procs : q < p => pc[q] # "idle"
  /\ fresh.pc = "none"
  /\ op' = [op EXCEPT ![p] = "load_from_path_or_else"]
  /\ pc' = [pc EXCEPT ![p] = "or_else_from_path"]
  /\ db' = "boot"
  /\ UNCHANGED <<dataVars, lockVars, fileVars, arg, buf, ret, snap, dirty, trace,
                 returned, saved, fresh, kind, exists, parts, persisted>>

\* The call returns an error before a Database was built.
OrElseFail(p, k) ==
  /\ UNCHANGED <<dataVars, lockVars>>
  /\ Return(p, k, None, None)

\* File::from_path_or_create tries File::from_path first: the file is opened,
\* is not found, or cannot be opened.
OrElse_FromPath(p) ==
  /\ pc[p] = "or_else_from_path"
  /\ Invoke(p, "from_path")
  /\ \/ /\ exists
        /\ fpos' = 0
        /\ Continue(p, "or_else_read")
        /\ UNCHANGED <<dataVars, lockVars>>
     \/ /\ ~exists
        /\ Continue(p, "or_else_create")
        /\ UNCHANGED <<dataVars, lockVars, fpos>>
     \/ /\ exists
        /\ OrElseFail(p, "BackendCreation")
        /\ UNCHANGED fpos
  /\ UNCHANGED <<contents, op, arg, buf, snap, returned>>
  /\ Observe(p)

\* Mutant: the file is created with the encoding of the default value in it.
OrElse_Create_Seeds(p) ==
  /\ pc[p] = "or_else_create"
  /\ Invoke(p, "create")
  /\ \/ /\ exists' = TRUE
        /\ contents' = to_bytes(0).bytes
        /\ fpos' = 0
        /\ Continue(p, "or_else_factory")
        /\ UNCHANGED <<dataVars, lockVars>>
     \/ /\ OrElseFail(p, "BackendCreation")
        /\ UNCHANGED <<exists, fileVars>>
  /\ UNCHANGED <<op, arg, buf, snap, returned>>
  /\ Account(p)

\* NotFound: the file is opened with create(true), which leaves a new file
\* empty.
OrElse_Create(p) ==
  /\ pc[p] = "or_else_create"
  /\ Invoke(p, "create")
  /\ \/ /\ exists' = TRUE
        /\ contents' = <<>>
        /\ fpos' = 0
        /\ Continue(p, "or_else_factory")
        /\ UNCHANGED <<dataVars, lockVars>>
     \/ /\ OrElseFail(p, "BackendCreation")
        /\ UNCHANGED <<exists, fileVars>>
  /\ UNCHANGED <<op, arg, buf, snap, returned>>
  /\ Account(p)

\* backend.read(): File::read seeks to the start.
OrElse_Seek(p) ==
  /\ pc[p] = "or_else_read"
  /\ Invoke(p, "read")
  /\ \/ /\ fpos' = 0
        /\ Continue(p, "or_else_read_to_end")
        /\ UNCHANGED <<dataVars, lockVars>>
     \/ /\ OrElseFail(p, "BackendRead")
        /\ UNCHANGED fpos
  /\ UNCHANGED <<contents, op, arg, buf, snap, returned>>
  /\ Observe(p)

OrElse_ReadToEnd(p) ==
  /\ pc[p] = "or_else_read_to_end"
  /\ \/ /\ buf' = [buf EXCEPT ![p] = ReadToEnd(contents, fpos)]
        /\ fpos' = Len(contents)
        /\ Continue(p, "or_else_from_bytes")
        /\ UNCHANGED <<dataVars, lockVars>>
     \/ /\ OrElseFail(p, "BackendRead")
        /\ UNCHANGED <<buf, fpos>>
  /\ UNCHANGED <<contents, op, arg, snap, trace, returned>>
  /\ Observe(p)

\* Database { data: RwLock::new(data), backend: Mutex::new(backend) }, and
\* db.save() is called.
Build(p, v) ==
  /\ data' = v
  /\ dataId' = 0
  /\ committed' = v
  /\ Continue(p, "save_backend_lock")
  /\ UNCHANGED lockVars

\* The file existed: F::from_bytes(bytes).
OrElse_FromBytes(p) ==
  /\ pc[p] = "or_else_from_bytes"
  /\ Invoke(p, "from_bytes")
  /\ IF from_bytes(buf[p]).ok
     THEN /\ arg' = [arg EXCEPT ![p] = Some(from_bytes(buf[p]).val)]
          /\ Build(p, from_bytes(buf[p]).val)
     ELSE /\ OrElseFail(p, "FromFormat")
          /\ UNCHANGED arg
  /\ UNCHANGED <<fileVars, op, buf, snap, returned>>
  /\ Observe(p)

\* Mutant: the factory is called but the default value is what is used.
OrElse_Factory_Default(p) ==
  /\ pc[p] = "or_else_factory"
  /\ Invoke(p, "factory")
  /\ \E v \in Data : arg' = [arg EXCEPT ![p] = Some(v)] /\ Build(p, 0)
  /\ UNCHANGED <<fileVars, op, buf, snap, returned>>
  /\ Observe(p)

\* The file did not exist: factory().
OrElse_Factory(p) ==
  /\ pc[p] = "or_else_factory"
  /\ Invoke(p, "factory")
  /\ \E v \in Data : arg' = [arg EXCEPT ![p] = Some(v)] /\ Build(p, v)
  /\ UNCHANGED <<fileVars, op, buf, snap, returned>>
  /\ Observe(p)

(***************************************************************************)
(* Database::into_parts: it takes the Database by value, so no call is     *)
(* running.                                                                *)
(***************************************************************************)
\* Mutant: taking the Database apart saves the Value first.
IntoParts_Saves ==
  /\ db = "ready"
  /\ Quiescent
  /\ fresh.pc = "none"
  /\ contents' = to_bytes(data).bytes
  /\ parts' = Some([data |-> data, backend |-> contents'])
  /\ db' = "consumed"
  /\ UNCHANGED <<taskVars, fpos, saved, fresh, kind, exists, persisted>>

IntoParts ==
  /\ db = "ready"
  /\ Quiescent
  /\ fresh.pc = "none"
  /\ parts' = Some([data |-> data, backend |-> contents])
  /\ db' = "consumed"
  /\ UNCHANGED <<taskVars, fileVars, saved, fresh, kind, exists, persisted>>

Next ==
  \/ \E p \in Procs : Call(p)
  \/ \E p \in Procs : Read_Lock(p)
  \/ \E p \in Procs : Read_Task(p)
  \/ \E p \in Procs : ReadAndThen_Lock(p)
  \/ \E p \in Procs : ReadAndThen_Task(p)
  \/ \E p \in Procs : ReadAndThen_Await(p)
  \/ \E p \in Procs : Write_Lock(p)
  \/ \E p \in Procs : Write_Task(p)
  \/ \E p \in Procs : WriteAndThen_Lock(p)
  \/ \E p \in Procs : WriteAndThen_Task(p)
  \/ \E p \in Procs : WriteAndThen_Await(p)
  \/ \E p \in Procs : Replace_Lock(p)
  \/ \E p \in Procs : Replace_Task(p)
  \/ \E p \in Procs : Save_BackendLock(p)
  \/ \E p \in Procs : Save_DataLock(p)
  \/ \E p \in Procs : Save_ToBytes(p)
  \/ \E p \in Procs : Save_Seek(p)
  \/ \E p \in Procs : Save_SetLen(p)
  \/ \E p \in Procs : Save_WriteAll(p)
  \/ \E p \in Procs : Save_SyncAll(p)
  \/ \E p \in Procs : Load_BackendLock(p)
  \/ \E p \in Procs : Load_Seek(p)
  \/ \E p \in Procs : Load_ReadToEnd(p)
  \/ \E p \in Procs : Load_FromBytes(p)
  \/ \E p \in Procs : Reload_Lock(p)
  \/ \E p \in Procs : Reload_Task(p)
  \/ LoadFromPath_Call
  \/ LoadFromPath_FromPath
  \/ LoadFromPath_Seek
  \/ LoadFromPath_ReadToEnd
  \/ LoadFromPath_FromBytes

\* The steps of task p after its call was issued.
Step(p) ==
  \/ Read_Lock(p) \/ Read_Task(p)
  \/ ReadAndThen_Lock(p) \/ ReadAndThen_Task(p) \/ ReadAndThen_Await(p)
  \/ Write_Lock(p) \/ Write_Task(p)
  \/ WriteAndThen_Lock(p) \/ WriteAndThen_Task(p) \/ WriteAndThen_Await(p)
  \/ Replace_Lock(p) \/ Replace_Task(p)
  \/ Save_BackendLock(p) \/ Save_DataLock(p) \/ Save_ToBytes(p) \/ Save_Seek(p)
  \/ Save_SetLen(p) \/ Save_WriteAll(p) \/ Save_SyncAll(p)
  \/ Load_BackendLock(p) \/ Load_Seek(p) \/ Load_ReadToEnd(p) \/ Load_FromBytes(p)
  \/ Reload_Lock(p) \/ Reload_Task(p)

TaskSteps == \E p \in Procs : Step(p)

Spec == Init /\ [][Next]_vars

\* The executor keeps polling: while some task can make a step, one is made.
\* Accessors and backend calls return, so every step of a call that holds its
\* locks is among them.
FairSpec == Spec /\ WF_vars(TaskSteps)

\* A program that starts without a Database and builds one over a file with
\* load_from_path_or_else, or starts with a Database over a Memory or an open
\* File backend, and in the end takes the Database apart.
FullInit ==
  /\ \/ /\ kind \in Backends
        /\ db = "ready"
        /\ exists = (kind = "File")
        /\ contents \in InitContents
        /\ persisted = Some(contents)
     \/ /\ kind = "File"
        /\ db = "none"
        /\ exists \in BOOLEAN
        /\ contents \in (IF exists THEN InitContents ELSE {<<>>})
        /\ persisted = (IF exists THEN Some(contents) ELSE None)
  /\ InitRest

FullNext ==
  \/ Next
  \/ \E p \in Procs : Save_MemWrite(p)
  \/ \E p \in Procs : Load_MemRead(p)
  \/ \E p \in Procs : OrElse_Call(p)
  \/ \E p \in Procs : OrElse_FromPath(p)
  \/ \E p \in Procs : OrElse_Create(p)
  \/ \E p \in Procs : OrElse_Seek(p)
  \/ \E p \in Procs : OrElse_ReadToEnd(p)
  \/ \E p \in Procs : OrElse_FromBytes(p)
  \/ \E p \in Procs : OrElse_Factory(p)
  \/ IntoParts

FullSpec == FullInit /\ [][FullNext]_vars

(***************************************************************************)
(* Where a call holds what                                                 *)
(***************************************************************************)
\* Positions at which a call holds a read guard of Database.data.
SharedPcs ==
  {"read_task", "rat_task", "rat_await", "save_to_bytes", "save_write", "save_set_len",
   "save_write_all", "save_sync_all"}
\* Positions at which a call holds the write guard of Database.data.
ExclusivePcs == {"write_task", "wat_task", "wat_await", "replace_task", "reload_task"}
\* Positions at which a call holds the guard of Database.backend.
BackendPcs ==
  {"save_data_lock", "save_to_bytes", "save_write", "save_set_len", "save_write_all",
   "save_sync_all", "load_read", "load_read_to_end", "load_from_bytes"}
\* Positions inside Backend::write and Backend::read.
BackendWritePcs == {"save_set_len", "save_write_all", "save_sync_all"}
BackendReadPcs == {"load_read_to_end"}

Shared == {p \in Procs : pc[p] \in SharedPcs}
Exclusive == {p \in Procs : pc[p] \in ExclusivePcs}
InBackend == {p \in Procs : pc[p] \in BackendPcs}
Pending == \E p \in Procs : pc[p] \notin {"idle", "done"}
Returned(p, o) == op[p] = o /\ pc[p] = "done"
Returns(p, o) == op[p] = o /\ pc[p] # "done" /\ pc'[p] = "done"

(***************************************************************************)
(* Claims                                                                  *)
(***************************************************************************)

\* C1: in every reachable state at most one call holds exclusive access to the
\* Value, and no call holds shared access (read, read_and_then, save) while a
\* call holds exclusive access (write, write_and_then, replace, reload's swap).
C1_ValueLockExclusion ==
  /\ Cardinality(Exclusive) <= 1
  /\ Exclusive # {} => Shared = {}
  /\ wlock = Exclusive
  /\ rlock = Shared

\* A writer is inside its task while a reader and a save wait their turn.
C1_Witness ==
  \E p, q \in Procs :
    /\ pc[p] \in {"wat_await", "write_task", "replace_task", "reload_task"}
    /\ pc[q] \in {"read_lock", "rat_lock", "save_data_lock"}

\* C2: the backend is used by one call at a time: the calls that are between
\* locking the backend and returning are never two, so a reload never reads the
\* file while a save has truncated it and not yet written it.
C2_BackendSerialized ==
  /\ Cardinality(InBackend) <= 1
  /\ block = InBackend
  /\ \A p, q \in Procs :
       pc[p] \in BackendReadPcs /\ pc[q] \in BackendWritePcs => FALSE

\* A save has truncated a file that held bytes, and a reload waits for the
\* backend.
C2_Witness ==
  \E p, q \in Procs :
    /\ pc[p] = "save_write_all" /\ contents = <<>> /\ dirty[p].store
    /\ pc[q] = "load_backend_lock"

\* C3: no deadlock: whenever a call is pending some call can make a step, and
\* under fair scheduling every call that was issued returns: every state is
\* followed by one in which no call is pending (a call stops being pending
\* only by returning).
C3_NoDeadlock ==
  /\ [](Pending => ENABLED TaskSteps)
  /\ []<>(~Pending)

\* A save holds the backend and waits for the Value lock, which a writer holds.
C3_Witness ==
  \E p, q \in Procs :
    /\ pc[p] = "save_data_lock"
    /\ pc[q] \in ExclusivePcs

\* C4: a reload that failed with BackendRead or FromFormat changed neither the
\* in-memory Value nor the bytes of the backend.
C4_ReloadFailureFrame ==
  \A p \in Procs :
    Returned(p, "reload") /\ ret[p].kind \in {"BackendRead", "FromFormat"}
      => ~dirty[p].data /\ ~dirty[p].store

\* A reload failed to decode while the Value was not the default one.
C4_Witness ==
  \E p \in Procs :
    Returned(p, "reload") /\ ret[p].kind = "FromFormat" /\ data # 0

\* C5: a save that failed with ToFormat never called the backend's write and
\* changed neither the bytes of the backend nor the in-memory Value.
C5_EncodeFailureFrame ==
  \A p \in Procs :
    Returned(p, "save") /\ ret[p].kind = "ToFormat"
      => /\ trace[p] = <<"to_bytes">>
         /\ ~dirty[p].store
         /\ ~dirty[p].data

\* A save failed to encode while the file held bytes.
C5_Witness ==
  \E p \in Procs : Returned(p, "save") /\ ret[p].kind = "ToFormat" /\ contents # <<>>

\* C6: whatever save returns, no step of it changed the Value, and when it
\* returns the Value is the one it encoded.
C6_SaveKeepsValue ==
  [][\A p \in Procs :
       Returns(p, "save")
         => /\ ret'[p].kind \in {"Ok", "ToFormat", "BackendWrite"}
            /\ data' = data
            /\ ~dirty'[p].data
            /\ snap'[p] = Some(data')]_vars

\* A save failed in the backend after it had changed the file, the Value not
\* being the default one.
C6_Witness ==
  \E p \in Procs :
    Returned(p, "save") /\ ret[p].kind = "BackendWrite" /\ dirty[p].store /\ data # 0

\* The objects that were moved into the database.
Installed == {0} \cup {ObjId(p) : p \in {q \in Procs : pc[q] = "done" /\ ret[q].id # None}}

C7_Conservation ==
  /\ \A i \in BagToSet(returned) : CopiesIn(i, returned) = 1
  /\ dataId \notin BagToSet(returned)
  /\ BagToSet(returned) \cup {dataId} = Installed
  /\ \A p, q \in Procs :
       (p # q /\ Returned(p, "replace") /\ Returned(q, "replace")) => ret[p].id # ret[q].id

\* C7: replace returns the Value (object) the database held right before the
\* swap and leaves its argument in the database; over all interleavings every
\* object that was installed is either still in the database or was returned by
\* exactly one call.
C7_ReplaceSwaps ==
  [][/\ \A p \in Procs :
          Returns(p, "replace")
            => /\ ret'[p].val = Some(data) /\ ret'[p].id = Some(dataId)
               /\ data' = arg[p][1] /\ dataId' = ObjId(p)
     /\ C7_Conservation']_vars

\* Two replace calls have returned, with different values.
C7_Witness ==
  \E p, q \in Procs :
    /\ p # q /\ Returned(p, "replace") /\ Returned(q, "replace")
    /\ ret[p].val # ret[q].val

\* C8: while the file holds what a successful save wrote, it holds exactly
\* to_bytes(v) for the Value v that save encoded, and a database built by
\* load_from_path from it holds v.
C8_RoundTrip ==
  /\ \A p \in Procs :
       saved = Some(p)
         => /\ to_bytes(snap[p][1]).ok
            /\ contents = to_bytes(snap[p][1]).bytes
  /\ \A p \in Procs :
       (fresh.from = Some(p) /\ fresh.pc = "done")
         => fresh.kind = "Ok" /\ fresh.data = snap[p]

\* A second database was built from the bytes a save wrote for a negative value.
C8_Witness ==
  /\ fresh.pc = "done" /\ fresh.kind = "Ok" /\ fresh.from # None
  /\ fresh.data = Some(0 - MaxData)

\* C9: a read returns the Value the last completed write, write_and_then,
\* replace or reload swap left (the initial one if there was none), and the
\* reads that hold shared access together have all seen that Value.
C9_ReadsSeeCommitted ==
  [][/\ \A p \in Procs :
          (Returns(p, "read") \/ Returns(p, "read_and_then"))
            => ret'[p].val = Some(committed) /\ committed' = committed
     /\ \A p \in Procs : pc'[p] = "rat_await" => snap'[p] = Some(committed')]_vars

\* A read returned a value that a write_and_then left, not the initial one.
C9_Witness ==
  \E p, q \in Procs :
    /\ Returned(q, "write_and_then")
    /\ Returned(p, "read") /\ ret[p].val = arg[q] /\ ret[p].val # Some(0)

\* Positions at which save holds both the backend guard and a read guard.
SavingPcs == SharedPcs \cap BackendPcs

\* C10: while a save holds the backend lock and shared access to the Value, a
\* read (or read_and_then) that waits for shared access can take it at once.
C10_SaveAdmitsReaders ==
  \A s, r \in Procs :
    pc[s] \in SavingPcs
      => /\ pc[r] = "read_lock" => ENABLED Read_Lock(r)
         /\ pc[r] = "rat_lock" => ENABLED ReadAndThen_Lock(r)

\* A read holds shared access together with a save that is writing the file.
C10_Witness ==
  \E s, r \in Procs :
    /\ pc[s] = "save_write_all"
    /\ pc[r] = "read_task"
    /\ rlock = {s, r}
\* Positions at which a call asks for the guard of Database.backend.
BackendLockPcs == {"save_backend_lock", "load_backend_lock"}
\* Positions of reload between load_from_backend's return and the end of the swap.
SwapPcs == {"reload_lock", "reload_task"}

Range(f) == {f[i] : i \in DOMAIN f}
IsPrefix(a, b) == Len(a) <= Len(b) /\ a = SubSeq(b, 1, Len(a))

\* C11: the bytes reload's backend read hands to the decoder are the bytes the
\* backend holds at that moment; a reload that returns Ok has installed their
\* decode as the Value, returns the Value (object) the database held right
\* before the swap, and has not changed the bytes of the backend.
C11_ReloadInstalls ==
  [][\A p \in Procs :
       /\ (op[p] = "reload" /\ pc[p] # "load_from_bytes" /\ pc'[p] = "load_from_bytes")
            => buf'[p] = contents
       /\ (Returns(p, "reload") /\ ret'[p].kind = "Ok")
            => /\ from_bytes(buf[p]).ok
               /\ data' = from_bytes(buf[p]).val
               /\ ret'[p].val = Some(data) /\ ret'[p].id = Some(dataId)
               /\ ~dirty'[p].store
               /\ contents' = contents]_vars

\* After a write left the largest value, a reload returned it and installed the
\* negative value the file held.
C11_Witness ==
  \E p, q \in Procs :
    /\ Returned(q, "write")
    /\ Returned(p, "reload") /\ ret[p].kind = "Ok"
    /\ ret[p].val = Some(MaxData) /\ data = 0 - MaxData

\* C16: a save calls the encoder at most once and then the backend's write at
\* most once, a reload the backend's read at most once and then the decoder at
\* most once; the call ends at its first failing step with that step's error
\* (ToFormat, BackendWrite, BackendRead, FromFormat) and runs no later step.
C16_ErrorsTerminal ==
  \A p \in Procs :
    /\ op[p] = "save" =>
         /\ IsPrefix(trace[p], <<"to_bytes", "write">>)
         /\ pc[p] = "done" =>
              /\ ret[p].kind \in {"Ok", "ToFormat", "BackendWrite"}
              /\ ret[p].kind = "ToFormat" <=> SerError(snap[p][1])
              /\ ret[p].kind = "ToFormat" <=> trace[p] = <<"to_bytes">>
    /\ op[p] = "reload" =>
         /\ IsPrefix(trace[p], <<"read", "from_bytes">>)
         /\ pc[p] = "done" =>
              /\ ret[p].kind \in {"Ok", "BackendRead", "FromFormat"}
              /\ ret[p].kind = "BackendRead" <=> trace[p] = <<"read">>
              /\ ret[p].kind = "FromFormat"
                   <=> (trace[p] = <<"read", "from_bytes">> /\ ~from_bytes(buf[p]).ok)

\* A save failed in the backend's write, and a reload failed to decode what
\* that left in the file.
C16_Witness ==
  \E p, q \in Procs :
    /\ Returned(p, "save") /\ ret[p].kind = "BackendWrite"
    /\ Returned(q, "reload") /\ ret[q].kind = "FromFormat" /\ dirty[p].store

\* C18: a call that asks for the backend lock, or gets it, holds no guard of the
\* Value, so a call that holds both locked the backend first.
C18_LockOrder ==
  [][\A p \in Procs :
       /\ pc'[p] \in BackendLockPcs => p \notin (rlock' \cup wlock')
       /\ (p \in block' /\ p \notin block) => p \notin (rlock \cup wlock)
       /\ (p \in block' /\ p \in (rlock' \cup wlock')) => p \in block]_vars

\* A save holds both locks while a reload, which has released the backend,
\* waits for the Value.
C18_Witness ==
  \E p, q \in Procs :
    /\ pc[p] = "save_to_bytes" /\ p \in block /\ p \in rlock
    /\ pc[q] = "reload_lock"

\* C19: while the backend write of a save is in progress the save holds no
\* guard of the Value, and a write or replace that waits for exclusive access
\* can take it.
C19_SaveReleasesValue ==
  \A s \in Procs :
    pc[s] \in BackendWritePcs
      => /\ s \notin rlock
         /\ \A w \in Procs :
              /\ pc[w] = "write_lock" => ENABLED Write_Lock(w)
              /\ pc[w] = "replace_lock" => ENABLED Replace_Lock(w)

\* C20: a reload holds the backend lock until its swap is done, so no save is
\* in the backend between a reload's read and its swap, and the bytes a reload
\* decoded are still the bytes of the backend when it installs their decode.
C20_ReloadExcludesSave ==
  \A p \in Procs :
    pc[p] \in SwapPcs
      => /\ p \in block
         /\ \A q \in Procs : pc[q] \notin BackendPcs
         /\ contents = buf[p]
OrElse == "load_from_path_or_else"
\* The calls that change the Value.
MutatingOps == {"write", "write_and_then", "replace", "reload"}
\* The calls that do not write the backend.
NonSavingOps == Ops \ {"save"}

\* C12: load_from_path_or_else goes on to create the file, and then to the
\* factory, exactly when no file exists at the path, and otherwise decodes the
\* bytes the file holds; one that returns Ok has called either the factory or
\* the decoder, at its return the Value is what that produced and the file
\* holds exactly the encoding of the Value, and a read issued before any
\* mutating call yields that Value.
C12_OrElseBuilds ==
  [][\A p \in Procs :
       /\ (pc[p] = "or_else_from_path" /\ pc'[p] = "or_else_create") => ~exists
       /\ (pc[p] = "or_else_from_path" /\ pc'[p] = "or_else_read") => exists
       /\ (pc[p] = "or_else_from_bytes" /\ pc'[p] = "save_backend_lock")
            => arg'[p] = Some(from_bytes(contents).val) /\ from_bytes(contents).ok
       /\ (Returns(p, OrElse) /\ ret'[p].kind = "Ok")
            => /\ ("factory" \in Range(trace'[p])) <=> ("create" \in Range(trace'[p]))
               /\ ("from_bytes" \in Range(trace'[p])) <=> ("create" \notin Range(trace'[p]))
               /\ data' = arg[p][1] /\ committed' = data'
               /\ to_bytes(data').ok /\ contents' = to_bytes(data').bytes
               /\ exists' /\ db' = "ready"
       /\ \A q \in Procs :
            (/\ Returned(p, OrElse) /\ ret[p].kind = "Ok"
             /\ Returns(q, "read") \/ Returns(q, "read_and_then")
             /\ \A r \in Procs : op[r] \notin MutatingOps)
              => ret'[q].val = arg[p]]_vars

\* The call created the file, the factory returned a value other than the
\* default one, and a read of the new database returned it.
C12_Witness ==
  \E p, q \in Procs :
    /\ Returned(p, OrElse) /\ ret[p].kind = "Ok" /\ "factory" \in Range(trace[p])
    /\ arg[p] = Some(0 - MaxData)
    /\ Returned(q, "read") /\ ret[q].val = Some(0 - MaxData)
    /\ contents = to_bytes(0 - MaxData).bytes

\* The call has created the file (and so has called the factory).
Created(p) == op[p] = OrElse /\ "factory" \in Range(trace[p])

\* C13 as stated: whenever load_from_path_or_else created the file and returns,
\* with Ok or with any error, the file holds the complete encoding of the
\* factory's Value.
C13_NeverLeftEmpty ==
  [][\A p \in Procs :
       (Returns(p, OrElse) /\ Created(p))
         => /\ to_bytes(arg[p][1]).ok
            /\ contents' = to_bytes(arg[p][1]).bytes]_vars

\* C13: when load_from_path_or_else created the file and returns Ok, the file
\* holds the complete encoding of the factory's Value; when it returns an error
\* after creating the file, the error is ToFormat or BackendWrite and the file
\* is left in place with a prefix of that encoding in it: empty after ToFormat,
\* empty, incomplete or complete after BackendWrite.
C13_CreatedFileOnReturn ==
  [][\A p \in Procs :
       (Returns(p, OrElse) /\ Created(p))
         => /\ exists'
            /\ ret'[p].kind \in {"Ok", "ToFormat", "BackendWrite"}
            /\ ret'[p].kind = "Ok"
                 => to_bytes(arg[p][1]).ok /\ contents' = to_bytes(arg[p][1]).bytes
            /\ ret'[p].kind = "ToFormat" => contents' = <<>>
            /\ ret'[p].kind = "BackendWrite" => IsPrefix(contents', to_bytes(arg[p][1]).bytes)
            /\ ret'[p].kind = "ToFormat" <=> ~to_bytes(arg[p][1]).ok]_vars

\* The call created the file and failed to encode the factory's Value: the
\* file exists and is empty.
C13_Witness ==
  \E p \in Procs :
    /\ Returned(p, OrElse) /\ Created(p) /\ ret[p].kind = "ToFormat"
    /\ exists /\ contents = <<>> /\ persisted = None

\* C14: load_from_path on a path where no file exists returns BackendCreation
\* without a Database, creates no file, and never gets to the backend's read
\* or to the decoder.
C14_MissingFile ==
  [][/\ (fresh.pc = "from_path" /\ ~exists /\ fresh' # fresh)
          => /\ fresh'.pc = "done" /\ fresh'.kind = "BackendCreation"
             /\ fresh'.data = None
     /\ fresh.pc # "none" => (exists' = exists /\ contents' = contents)
     /\ fresh'.pc \in {"read", "read_to_end", "from_bytes"} => exists']_vars

\* load_from_path has returned BackendCreation and there is still no file.
C14_Witness ==
  /\ fresh.pc = "done" /\ fresh.kind = "BackendCreation" /\ fresh.data = None
  /\ ~exists /\ db = "none"

\* C15: over Memory and over File, a save whose backend write succeeded leaves
\* exactly the bytes it wrote in the backend, whatever was there before; a
\* backend read returns exactly the bytes of the backend, and the empty
\* sequence from a backend that was never written and started empty.
C15_WholeContent ==
  [][\A p \in Procs :
       /\ (Returns(p, "save") /\ ret'[p].kind = "Ok") => contents' = buf[p]
       /\ (op[p] = "reload" /\ pc[p] # "load_from_bytes" /\ pc'[p] = "load_from_bytes")
            => /\ buf'[p] = contents'
               /\ \A q \in Procs :
                    (Returned(q, "save") /\ ret[q].kind = "Ok" /\ saved = Some(q))
                      => buf'[p] = buf[q]
               /\ (persisted = Some(<<>>) /\ \A q \in Procs : "write" \notin Range(trace[q]))
                    => buf'[p] = <<>>]_vars

\* Over Memory, a save replaced the bytes and the reload after it read what the
\* save wrote.
C15_Witness ==
  \E p, q \in Procs :
    /\ kind = "Memory"
    /\ Returned(p, "save") /\ ret[p].kind = "Ok" /\ dirty[p].store
    /\ pc[q] = "load_from_bytes" /\ buf[q] = buf[p] /\ buf[q] # <<>>

\* No call other than save has changed the bytes of the backend, and
\* into_parts returned the current Value.
C17_Frame ==
  /\ \A p \in Procs : op[p] \in NonSavingOps => ~dirty[p].store
  /\ parts # None => parts[1].data = data /\ parts[1].backend = contents

\* C17 as stated: only save changes the bytes of the backend, and into_parts
\* returns the backend with the bytes of the last successful save (its initial
\* bytes if there was none), together with the current Value.
C17_OnlySavePersists ==
  /\ C17_Frame
  /\ parts # None => Some(parts[1].backend) = persisted

\* A save has failed in the backend's write.
WriteFailed == \E p \in Procs : pc[p] = "done" /\ ret[p].kind = "BackendWrite"

\* C17: only save changes the bytes of the backend; into_parts returns the
\* current Value and the backend as the saves left it: with the bytes of the
\* last successful save (its initial bytes if there was none) unless a save has
\* failed in the backend's write.
C17_PartsAsSavesLeftThem ==
  /\ C17_Frame
  /\ (parts # None /\ ~WriteFailed) => Some(parts[1].backend) = persisted

\* The Value was changed after the bytes were written: into_parts returned the
\* new Value with the old bytes.
C17_Witness ==
  \E p \in Procs :
    /\ Returned(p, "write")
    /\ parts = Some([data |-> 0 - MaxData, backend |-> to_bytes(0).bytes])
\* A save or a reload has returned, with Ok or with an error.
Exited(p) == pc[p] = "done" /\ op[p] \in {"save", "reload"}
\* The results with which save and reload return.
ExitKinds == {"Ok", "ToFormat", "BackendWrite", "BackendRead", "FromFormat"}

\* C21: a save or reload that has returned, with Ok or with any of ToFormat,
\* BackendWrite, BackendRead, FromFormat, holds neither the backend lock nor a
\* guard of the Value; when all calls that were running have returned both
\* locks are free, and under fair scheduling the calls that are pending after
\* a save or reload returned all return: once a save or reload has returned,
\* again and again no call is pending.
C21_LocksReleased ==
  /\ [](\A p \in Procs :
          Exited(p) => /\ ret[p].kind \in ExitKinds
                       /\ p \notin block /\ p \notin rlock /\ p \notin wlock)
  /\ [](~Pending => (block = {} /\ rlock = {} /\ wlock = {}))
  /\ []<>((\E p \in Procs : Exited(p)) => ~Pending)

\* A reload has returned FromFormat and the save that follows it has locked the
\* backend.
C21_Witness ==
  \E p, q \in Procs :
    /\ Exited(p) /\ op[p] = "reload" /\ ret[p].kind = "FromFormat"
    /\ op[q] = "save" /\ pc[q] = "save_data_lock" /\ q \in block
====
